---------------------------- MODULE Spec2Model ----------------------------
(***************************************************************************)
(* State-machine model of the WEB_TESLA_ITSE frontend: the ApiService      *)
(* (fetchApi and its four endpoint methods) and the App controller         *)
(* (startup, metrics rendering, contact form, chat widget).                *)
(*                                                                         *)
(* JavaScript runs each handler to its next await without interleaving,    *)
(* so an action of the model is one such synchronous segment: the part of  *)
(* a handler from its start to its first await, or the continuation that   *)
(* runs when the awaited request settles.                                  *)
(*                                                                         *)
(* A JavaScript string that the code inspects character by character       *)
(* (trim, the e-mail pattern, HTML escaping) is a sequence of              *)
(* one-character strings.  Messages that the code only passes on are       *)
(* plain strings.  console.log / console.error calls, the time stamp of a  *)
(* chat entry and the scroll position are not modelled; the accented       *)
(* letters of the messages are written without accent.  The page is the    *)
(* one the controller addresses: #connection-status, #contact-form with    *)
(* its submit button, #chat-form with its text input and .chat-messages    *)
(* exist, and every bar has a .tip; the number of bars is an input.        *)
(***************************************************************************)
EXTENDS Integers, Sequences, FiniteSets, TLC

VARIABLES
    initPc,          \* position of initializeApp
    statusElement,   \* #connection-status: textContent and className
    healthRaw,       \* the raw answer delivered to the health request
    metricsRaw,      \* the raw answer delivered to the metrics request
    bars,            \* the .chart .bar elements, in document order
    listeners,       \* submit listeners bound on the two forms
    notifications,   \* the calls of showNotification: how many, and the last
    requests,        \* number of fetch calls issued per endpoint
    form,            \* the contact form's fields
    submitButton,    \* the contact form's submit button
    leadCalls,       \* handleContactSubmit invocations awaiting sendLead
    contactEvents,   \* submit events dispatched on the contact form
    chatInput,       \* value of the chat text input
    chatContainer,   \* children of .chat-messages, in document order
    chatCalls,       \* handleChatSubmit invocations awaiting sendChatMessage
    chatEvents,      \* submit events dispatched on the chat form
    uncaught,        \* errors that escaped a handler (unhandled rejections)
    fetched          \* the last direct call of fetchApi: its answer and outcome

vars == <<initPc, statusElement, healthRaw, metricsRaw, bars, listeners,
          notifications, requests, form, submitButton, leadCalls,
          contactEvents, chatInput, chatContainer, chatCalls, chatEvents,
          uncaught, fetched>>

startupVars == <<initPc, statusElement, healthRaw, metricsRaw, bars, listeners>>
contactVars == <<form, submitButton, leadCalls, contactEvents>>
chatVars    == <<chatInput, chatContainer, chatCalls, chatEvents>>

---------------------------------------------------------------------------
(* Bounds of the model *)

MaxBars == 4         \* most .bar elements on the page
MaxContact == 2      \* most submit events on the contact form
MaxChat == 2         \* most submit events on the chat form
MaxPage == 1         \* most submit events per form when both forms are used

---------------------------------------------------------------------------
(* Text *)

Whitespace == {" "}

RECURSIVE TrimStart(_)
TrimStart(s) ==
    IF s # <<>> /\ Head(s) \in Whitespace THEN TrimStart(Tail(s)) ELSE s

RECURSIVE TrimEnd(_)
TrimEnd(s) ==
    IF s # <<>> /\ s[Len(s)] \in Whitespace
    THEN TrimEnd(SubSeq(s, 1, Len(s) - 1))
    ELSE s

TrimIdentity(s) == s

\* String.prototype.trim
Trim(s) == TrimEnd(TrimStart(s))

\* [^\s@]
NotSpaceNorAt(c) == c \notin Whitespace /\ c # "@"

\* /^[^\s@]+@[^\s@]+\.[^\s@]+$/.test(s)
EmailRegexTest(s) ==
    \E i \in 2..Len(s), j \in 4..(Len(s) - 1) :
        /\ i + 1 < j
        /\ s[i] = "@"
        /\ s[j] = "."
        /\ \A k \in 1..Len(s) : k # i => NotSpaceNorAt(s[k])

\* What innerHTML gives back for one character of a text node
EscapeChar(c) ==
    CASE c = "&" -> <<"&", "a", "m", "p", ";">>
      [] c = "<" -> <<"&", "l", "t", ";">>
      [] c = ">" -> <<"&", "g", "t", ";">>
      [] OTHER   -> <<c>>

RECURSIVE EscapeChars(_)
\* The serialization of a text node, character by character
EscapeChars(text) ==
    IF text = <<>> THEN <<>>
    ELSE EscapeChar(Head(text)) \o EscapeChars(Tail(text))

---------------------------------------------------------------------------
(* HTTP answers and ApiService.fetchApi *)

\* JSON bodies: undecodable, null, or an object with some fields
InvalidBody == [json |-> "invalid"]
NullBody == [json |-> "null"]
ObjectBody(f) == [json |-> "object", fields |-> f]
EmptyObject == ObjectBody(<<>>)

\* What fetch() settles with
TransportError(m) == [net |-> "error", msg |-> m]
HttpResponse(status, body) == [net |-> "http", status |-> status, body |-> body]
NoResponse == [net |-> "none"]

\* response.ok
ResponseOk(status) == status \in 200..299

DefaultErrorMessage == "Error en la peticion"
NullDerefMessage == "Cannot read properties of null"
JsonSyntaxMessage == "Unexpected token in JSON"

\* The outcome of an async call: a value, or a thrown Error with its message
Returned(v) == [ok |-> TRUE, value |-> v, message |-> ""]
Thrown(m) == [ok |-> FALSE, value |-> NullBody, message |-> m]

\* obj[field] is not undefined
HasField(obj, field) ==
    /\ obj.json = "object"
    /\ field \in DOMAIN obj.fields

FetchApi(raw) ==
    IF raw.net = "error" THEN Thrown(raw.msg)
    ELSE IF ~ResponseOk(raw.status) THEN
        LET error == IF raw.body.json = "invalid" THEN EmptyObject ELSE raw.body
        IN  IF error.json = "null" THEN Thrown(NullDerefMessage)
            ELSE Thrown(IF HasField(error, "message") /\ error.fields["message"] # ""
                        THEN error.fields["message"]
                        ELSE DefaultErrorMessage)
    ELSE IF raw.status = 204 THEN Returned(NullBody)
    ELSE IF raw.body.json = "invalid" THEN Thrown(JsonSyntaxMessage)
    ELSE Returned(raw.body)

\* API_CONFIG.ENDPOINTS
Endpoints == {"HEALTH", "METRICS", "CHAT", "LEADS"}

IssueAndRetry(reqs, e) == [reqs EXCEPT ![e] = @ + 2]

\* One more fetch on endpoint e
Issue(reqs, e) == [reqs EXCEPT ![e] = @ + 1]

---------------------------------------------------------------------------
(* Notifications *)

Notification(message, type) == [type |-> type, message |-> message]

NoNotifications == [count |-> 0, last |-> Notification("", "")]

\* showNotification(message, type)
ShowNotification(log, message, type) ==
    [count |-> log.count + 1, last |-> Notification(message, type)]

CatchClauseRethrows(handler, message) == <<message>>

\* What the catch clause of a handler throws in its turn, as the errors that
\* leave the handler.  The catch clauses of initializeApp, loadMetrics,
\* handleContactSubmit and handleChatSubmit log, notify or render a fallback,
\* and none has a throw.
CatchClause(handler, message) == <<>>

---------------------------------------------------------------------------
(* Connection status *)

StatusUnknown == [textContent |-> "", className |-> ""]

UpdateConnectionStatusSwapped(isConnected) ==
    IF isConnected
    THEN [textContent |-> "Sin conexion al servidor", className |-> "status-disconnected"]
    ELSE [textContent |-> "Conectado al servidor", className |-> "status-connected"]

\* updateConnectionStatus(isConnected): the element's new content
UpdateConnectionStatus(isConnected) ==
    IF isConnected
    THEN [textContent |-> "Conectado al servidor", className |-> "status-connected"]
    ELSE [textContent |-> "Sin conexion al servidor", className |-> "status-disconnected"]

---------------------------------------------------------------------------
(* Metrics *)

\* const keys = ['itse', 'pozo', 'mant', 'inc']
Keys == <<"itse", "pozo", "mant", "inc">>

Min(a, b) == IF a < b THEN a ELSE b
Max(a, b) == IF a > b THEN a ELSE b

\* The object loadMetrics renders when the load fails
FallbackMetrics ==
    ObjectBody([k \in {"itse", "pozo", "mant", "inc"} |->
        CASE k = "itse" -> 80 [] k = "pozo" -> 65 [] k = "mant" -> 90 [] OTHER -> 50])

\* metrics[key] || 50, for the bar at position index (keys[index] is undefined
\* past the last key, and so is a missing field; 0 is falsy)
MetricValue(metrics, index) ==
    IF index <= Len(Keys) /\ HasField(metrics, Keys[index]) /\ metrics.fields[Keys[index]] # 0
    THEN metrics.fields[Keys[index]]
    ELSE 50

BarHeightNoFloor(value) == Min(100, value)

\* Math.max(5, Math.min(100, value)), the number before "%" in style.height
BarHeight(value) == Max(5, Min(100, value))

\* The number before "%" in tip.textContent
TipLabel(value) == value

UnrenderedBar == [rendered |-> FALSE, height |-> 0, label |-> 0]

UpdateMetricsUINullAsEmpty(bs, metrics) ==
    [threw |-> FALSE,
     bars |-> [i \in 1..Len(bs) |->
                 [rendered |-> TRUE,
                  height |-> BarHeight(MetricValue(metrics, i)),
                  label |-> TipLabel(MetricValue(metrics, i))]]]

\* updateMetricsUI(metrics): reading a field of null throws at the first bar,
\* before any bar is touched; with no bar the loop body never runs
UpdateMetricsUI(bs, metrics) ==
    IF metrics.json = "null" /\ Len(bs) > 0
    THEN [threw |-> TRUE, bars |-> bs]
    ELSE [threw |-> FALSE,
          bars |-> [i \in 1..Len(bs) |->
                      [rendered |-> TRUE,
                       height |-> BarHeight(MetricValue(metrics, i)),
                       label |-> TipLabel(MetricValue(metrics, i))]]]

LoadMetricsNoCatch(bs, result) ==
    IF result.ok
    THEN UpdateMetricsUI(bs, result.value)
    ELSE [threw |-> TRUE, bars |-> bs]

\* loadMetrics once getMetrics has settled with result: the bars afterwards,
\* and whether an error leaves loadMetrics
LoadMetrics(bs, result) ==
    LET first == IF result.ok
                 THEN UpdateMetricsUI(bs, result.value)
                 ELSE [threw |-> TRUE, bars |-> bs]
    IN  IF first.threw THEN UpdateMetricsUI(first.bars, FallbackMetrics) ELSE first

---------------------------------------------------------------------------
(* Startup *)

NoListeners == [contact |-> 0, chat |-> 0]

InitializeEventListenersTwice(ls) ==
    [contact |-> ls.contact + 2, chat |-> ls.chat + 2]

\* initializeEventListeners
InitializeEventListeners(ls) ==
    [contact |-> ls.contact + 1, chat |-> ls.chat + 1]

ConnectErrorMessage == "Error al conectar con el servidor"

EmptyForm == [name |-> <<>>, email |-> <<>>, phone |-> <<>>, message |-> <<>>]

IdleLabel == "Enviar"
BusyLabel == "Enviando..."

\* The page after new App(): initializeApp has run to its first await, the
\* health request is in flight
InitPage(barCounts) ==
    /\ initPc = "awaitHealth"
    /\ statusElement = StatusUnknown
    /\ healthRaw = NoResponse
    /\ metricsRaw = NoResponse
    /\ \E n \in barCounts : bars = [i \in 1..n |-> UnrenderedBar]
    /\ listeners = NoListeners
    /\ notifications = NoNotifications
    /\ requests = [e \in Endpoints |-> IF e = "HEALTH" THEN 1 ELSE 0]
    /\ form = EmptyForm
    /\ submitButton = [disabled |-> FALSE, textContent |-> IdleLabel]
    /\ leadCalls = {}
    /\ contactEvents = 0
    /\ chatInput = <<>>
    /\ chatContainer = <<>>
    /\ chatCalls = {}
    /\ chatEvents = 0
    /\ uncaught = <<>>
    /\ fetched = <<>>

AfterHealthCheckSwallowed(ok) == "awaitMetrics"

\* Where initializeApp goes once checkBackendConnection is over: on to
\* loadMetrics, or, the error being thrown again, to its catch
AfterHealthCheck(ok) == IF ok THEN "awaitMetrics" ELSE "aborted"

\* The health request settles: the rest of checkBackendConnection, then of
\* initializeApp up to the await in loadMetrics, or its catch
HealthSettle(raw) ==
    /\ initPc = "awaitHealth"
    /\ healthRaw' = raw
    /\ LET result == FetchApi(raw)
       IN  /\ statusElement' = UpdateConnectionStatus(result.ok)
           /\ initPc' = AfterHealthCheck(result.ok)
           /\ IF AfterHealthCheck(result.ok) = "awaitMetrics"
              THEN /\ requests' = Issue(requests, "METRICS")
                   /\ UNCHANGED <<notifications, uncaught>>
              ELSE /\ notifications' =
                        ShowNotification(notifications, ConnectErrorMessage, "error")
                   /\ uncaught' = uncaught \o CatchClause("initializeApp", result.message)
                   /\ UNCHANGED requests
    /\ UNCHANGED <<metricsRaw, bars, listeners, fetched>>
    /\ UNCHANGED <<contactVars, chatVars>>

\* The metrics request settles: the rest of loadMetrics, then of initializeApp
MetricsSettle(raw) ==
    /\ initPc = "awaitMetrics"
    /\ metricsRaw' = raw
    /\ LET result == FetchApi(raw)
           loaded == LoadMetrics(bars, result)
           inLoad == IF ~result.ok THEN CatchClause("loadMetrics", result.message)
                     ELSE IF UpdateMetricsUI(bars, result.value).threw
                     THEN CatchClause("loadMetrics", NullDerefMessage)
                     ELSE <<>>
       IN  /\ bars' = loaded.bars
           /\ IF loaded.threw
              THEN /\ initPc' = "aborted"
                   /\ notifications' =
                        ShowNotification(notifications, ConnectErrorMessage, "error")
                   /\ uncaught' = uncaught \o inLoad
                                       \o CatchClause("initializeApp", NullDerefMessage)
                   /\ UNCHANGED listeners
              ELSE /\ initPc' = "initialized"
                   /\ listeners' = InitializeEventListeners(listeners)
                   /\ uncaught' = uncaught \o inLoad
                   /\ UNCHANGED notifications
    /\ UNCHANGED <<statusElement, healthRaw, requests, fetched>>
    /\ UNCHANGED <<contactVars, chatVars>>

---------------------------------------------------------------------------
(* Contact form *)

MissingFieldsMessage == "Por favor complete todos los campos obligatorios"
InvalidEmailMessage == "Por favor ingrese un correo electronico valido"
GenericContactError == "Error al enviar el mensaje. Por favor, intente nuevamente."
ContactSuccessMessage == "Mensaje enviado con exito!"

\* 'Sin mensaje adicional'
PlaceholderMessage == <<
    "S", "i", "n", " ", "m", "e", "n", "s", "a", "j", "e", " ",
    "a", "d", "i", "c", "i", "o", "n", "a", "l">>

ValidateLeadNoPhone(f) ==
    IF Trim(f.name) = <<>> \/ Trim(f.email) = <<>>
    THEN MissingFieldsMessage
    ELSE IF ~EmailRegexTest(Trim(f.email)) THEN InvalidEmailMessage
    ELSE ""

\* The validation of handleContactSubmit: the message of the Error it throws,
\* "" when it throws none
ValidateLead(f) ==
    IF Trim(f.name) = <<>> \/ Trim(f.email) = <<>> \/ Trim(f.phone) = <<>>
    THEN MissingFieldsMessage
    ELSE IF ~EmailRegexTest(Trim(f.email)) THEN InvalidEmailMessage
    ELSE ""

LeadMessageAsTyped(f) ==
    [name |-> Trim(f.name),
     email |-> Trim(f.email),
     phone |-> Trim(f.phone),
     message |-> IF f.message # <<>> THEN f.message ELSE PlaceholderMessage,
     source |-> "formulario-web"]

\* The object handed to sendLead
Lead(f) ==
    [name |-> Trim(f.name),
     email |-> Trim(f.email),
     phone |-> Trim(f.phone),
     message |-> IF Trim(f.message) # <<>> THEN Trim(f.message) ELSE PlaceholderMessage,
     source |-> "formulario-web"]

\* error.message || 'Error al enviar el mensaje. ...'
ErrorText(message) == IF message # "" THEN message ELSE GenericContactError

\* The button between the try's first two statements and the finally
SendingButton == [disabled |-> TRUE, textContent |-> BusyLabel]

\* The finally of handleContactSubmit
RestoredButton(originalButtonText) ==
    [disabled |-> FALSE, textContent |-> originalButtonText]

FormAfterLeadAlwaysReset(f, ok) == EmptyForm

\* The form once sendLead has settled: form.reset() on success only
FormAfterLead(f, ok) == IF ok THEN EmptyForm ELSE f

\* The user edits one field of the contact form
FillForm(field, value) ==
    /\ form[field] # value
    /\ form' = [form EXCEPT ![field] = value]
    /\ UNCHANGED <<submitButton, leadCalls, contactEvents>>
    /\ UNCHANGED <<startupVars, chatVars, notifications, requests, uncaught, fetched>>

\* A submit event on the contact form: handleContactSubmit up to the await of
\* sendLead, or to its end when the validation throws
ContactSubmit(limit) ==
    /\ listeners.contact > 0
    /\ contactEvents < limit
    /\ contactEvents' = contactEvents + 1
    /\ LET originalButtonText == submitButton.textContent
           error == ValidateLead(form)
       IN  IF error # ""
           THEN /\ notifications' = ShowNotification(notifications, ErrorText(error), "error")
                /\ submitButton' = RestoredButton(originalButtonText)
                /\ uncaught' = uncaught \o CatchClause("handleContactSubmit", error)
                /\ UNCHANGED <<leadCalls, requests>>
           ELSE /\ submitButton' = SendingButton
                /\ leadCalls' = leadCalls \cup
                     {[id |-> contactEvents + 1,
                       originalButtonText |-> originalButtonText,
                       lead |-> Lead(form)]}
                /\ requests' = Issue(requests, "LEADS")
                /\ UNCHANGED <<notifications, uncaught>>
    /\ UNCHANGED <<form, fetched>>
    /\ UNCHANGED <<startupVars, chatVars>>

\* The lead request of invocation h settles: the rest of handleContactSubmit
LeadSettle(h, raw) ==
    /\ h \in leadCalls
    /\ leadCalls' = leadCalls \ {h}
    /\ LET result == FetchApi(raw)
       IN  /\ notifications' =
                IF result.ok
                THEN ShowNotification(notifications, ContactSuccessMessage, "success")
                ELSE ShowNotification(notifications, ErrorText(result.message), "error")
           /\ form' = FormAfterLead(form, result.ok)
           /\ uncaught' =
                IF result.ok THEN uncaught
                ELSE uncaught \o CatchClause("handleContactSubmit", result.message)
    /\ submitButton' = RestoredButton(h.originalButtonText)
    /\ UNCHANGED <<contactEvents, requests, fetched>>
    /\ UNCHANGED <<startupVars, chatVars>>

---------------------------------------------------------------------------
(* Chat *)

\* The text handleChatSubmit appends when the request fails
FallbackReply == <<
    "L", "o", " ", "s", "i", "e", "n", "t", "o", ",", " ", "h",
    "a", " ", "o", "c", "u", "r", "r", "i", "d", "o", " ", "u",
    "n", " ", "e", "r", "r", "o", "r", " ", "a", "l", " ", "p",
    "r", "o", "c", "e", "s", "a", "r", " ", "t", "u", " ", "m",
    "e", "n", "s", "a", "j", "e", ".", " ", "P", "o", "r", " ",
    "f", "a", "v", "o", "r", ",", " ", "i", "n", "t", "e", "n",
    "t", "a", "l", "o", " ", "d", "e", " ", "n", "u", "e", "v",
    "o", " ", "m", "a", "s", " ", "t", "a", "r", "d", "e", ".">>

\* The fallback text escaped, computed once
EscapedFallbackReply == EscapeChars(FallbackReply)

EscapeHtmlRaw(text) == text

\* escapeHtml: div.textContent = text; return div.innerHTML
EscapeHtml(text) ==
    IF text = FallbackReply THEN EscapedFallbackReply ELSE EscapeChars(text)

\* A child of .chat-messages.  sub is not part of the page: it names the
\* submission (the value of chatEvents) that appended the entry.
ChatEntry(text, sender, sub) == [sender |-> sender, html |-> EscapeHtml(text), sub |-> sub]

TypingIndicator == [sender |-> "typing-indicator", html |-> <<>>, sub |-> 0]

AppendMessageFirst(container, text, sender, sub) ==
    <<ChatEntry(text, sender, sub)>> \o container

\* appendMessage(text, sender)
AppendMessage(container, text, sender, sub) ==
    Append(container, ChatEntry(text, sender, sub))

\* showTypingIndicator
ShowTypingIndicator(container) == Append(container, TypingIndicator)

HideTypingIndicatorNever(container) == container

HideFirstChild(container) ==
    IF container = <<>> THEN container ELSE Tail(container)

\* hideTypingIndicator: getElementById gives the first element with the id
HideTypingIndicator(container) ==
    LET at == {i \in 1..Len(container) : container[i] = TypingIndicator}
    IN  IF at = {} THEN container
        ELSE LET first == CHOOSE i \in at : \A j \in at : i <= j
             IN  SubSeq(container, 1, first - 1) \o SubSeq(container, first + 1, Len(container))

\* response.reply as appendMessage renders it: textContent = undefined
\* leaves the text empty
ReplyText(value) ==
    IF HasField(value, "reply") THEN value.fields["reply"] ELSE <<>>

ChatContinuationNoFallback(container, result, sub) ==
    IF result.ok /\ result.value.json # "null"
    THEN AppendMessage(HideTypingIndicator(container), ReplyText(result.value), "bot", sub)
    ELSE HideTypingIndicator(container)

\* handleChatSubmit after the await: .chat-messages once the request of
\* submission sub has settled with result.  Reading reply of null throws
\* after the indicator was hidden, and the catch hides again.
ChatContinuation(container, result, sub) ==
    IF result.ok
    THEN LET hidden == HideTypingIndicator(container)
         IN  IF result.value.json = "null"
             THEN AppendMessage(HideTypingIndicator(hidden), FallbackReply, "bot", sub)
             ELSE AppendMessage(hidden, ReplyText(result.value), "bot", sub)
    ELSE AppendMessage(HideTypingIndicator(container), FallbackReply, "bot", sub)

\* The user edits the chat input
TypeChat(s) ==
    /\ s # chatInput
    /\ chatInput' = s
    /\ UNCHANGED <<chatContainer, chatCalls, chatEvents>>
    /\ UNCHANGED <<startupVars, contactVars, notifications, requests, uncaught, fetched>>

\* A submit event on the chat form: handleChatSubmit up to its return on an
\* empty message, or to the await of sendChatMessage
ChatSubmit(limit) ==
    /\ listeners.chat > 0
    /\ chatEvents < limit
    /\ chatEvents' = chatEvents + 1
    /\ LET message == Trim(chatInput)
       IN  IF message = <<>>
           THEN UNCHANGED <<chatInput, chatContainer, chatCalls, requests>>
           ELSE /\ chatContainer' =
                     ShowTypingIndicator(
                         AppendMessage(chatContainer, message, "user", chatEvents + 1))
                /\ chatInput' = <<>>
                /\ chatCalls' = chatCalls \cup {[id |-> chatEvents + 1, message |-> message]}
                /\ requests' = Issue(requests, "CHAT")
    /\ UNCHANGED <<notifications, uncaught, fetched>>
    /\ UNCHANGED <<startupVars, contactVars>>

\* The chat request of invocation h settles: the rest of handleChatSubmit
ChatSettle(h, raw) ==
    /\ h \in chatCalls
    /\ chatCalls' = chatCalls \ {h}
    /\ LET result == FetchApi(raw)
       IN  /\ chatContainer' = ChatContinuation(chatContainer, result, h.id)
           /\ uncaught' =
                IF ~result.ok
                THEN uncaught \o CatchClause("handleChatSubmit", result.message)
                ELSE IF result.value.json = "null"
                THEN uncaught \o CatchClause("handleChatSubmit", NullDerefMessage)
                ELSE uncaught
    /\ UNCHANGED <<chatInput, chatEvents, notifications, requests, fetched>>
    /\ UNCHANGED <<startupVars, contactVars>>

---------------------------------------------------------------------------
(* Answers of the backend *)

ServerMessage == "Servicio no disponible"
TransportMessage == "Failed to fetch"

\* Failures of any endpoint
FailureRaws ==
    {TransportError(TransportMessage), TransportError(""),
     HttpResponse(500, ObjectBody([k \in {"message"} |-> ServerMessage])),
     HttpResponse(500, EmptyObject),
     HttpResponse(503, InvalidBody),
     HttpResponse(404, NullBody)}

HealthRaws ==
    {HttpResponse(200, EmptyObject), HttpResponse(204, InvalidBody)} \cup FailureRaws

MetricVals == {-10, 0, 3, 50, 100, 150}

MetricsObjects ==
    UNION {[S -> MetricVals] : S \in SUBSET {"itse", "pozo", "mant", "inc"}}

MetricsRaws ==
    {HttpResponse(200, ObjectBody(f)) : f \in MetricsObjects}
        \cup {HttpResponse(204, InvalidBody), HttpResponse(200, NullBody),
              HttpResponse(200, InvalidBody)}
        \cup FailureRaws

---------------------------------------------------------------------------
(* Inputs of the user *)

NameInputs == {<<>>, <<" ", "a", " ">>}
PhoneInputs == {<<>>, <<" ">>, <<"9", " ">>}
MessageInputs == {<<" ">>, <<" ", "m">>}

EmailInputs ==
    {<<>>,
     <<"a", "@", "b", ".", "c">>,
     <<" ", "a", "@", "b", ".", "c", " ">>,
     <<"a", "@", "b">>,
     <<"a", "b", ".", "c">>,
     <<"a", " ", "@", "b", ".", "c">>,
     <<"a", "@", "@", "b", ".", "c">>,
     <<"@", "b", ".", "c">>,
     <<"a", "@", ".", "c">>,
     <<"a", "@", "b", ".">>}

FormFields == {"name", "email", "phone", "message"}

FieldInputs ==
    [name |-> NameInputs, email |-> EmailInputs, phone |-> PhoneInputs,
     message |-> MessageInputs]

\* A few inputs for the specifications that are not about the contact form
FewFieldInputs ==
    [name |-> {<<" ", "a", " ">>},
     email |-> {<<"a", "@", "b", ".", "c">>, <<"a", "@", "b">>},
     phone |-> {<<"9", " ">>},
     message |-> {<<" ">>}]

ChatInputs ==
    {<<>>, <<" ">>, <<" ", " ">>, <<"H", "o", "l", "a">>,
     <<" ", "<", "b", ">", "&", " ">>}

FewChatInputs == {<<" ">>, <<"H", "o", "l", "a">>}

\* Answers of the chat endpoint
ChatReply(text) == HttpResponse(200, ObjectBody([k \in {"reply"} |-> text]))

ChatRaws ==
    {ChatReply(<<"o", "k", "<", "&">>), HttpResponse(200, EmptyObject), HttpResponse(200, NullBody),
     HttpResponse(204, InvalidBody), HttpResponse(200, InvalidBody)}
        \cup FailureRaws

LeadRaws ==
    {HttpResponse(200, EmptyObject), HttpResponse(204, InvalidBody),
     TransportError(TransportMessage), TransportError(""),
     HttpResponse(500, ObjectBody([k \in {"message"} |-> ServerMessage])),
     HttpResponse(503, InvalidBody)}

\* One success and one failure per endpoint, for the specifications that are
\* about another part of the page
FewFailureRaws == {TransportError(TransportMessage)}
FewHealthRaws == {HttpResponse(200, EmptyObject)} \cup FewFailureRaws
FewMetricsRaws ==
    {HttpResponse(200, ObjectBody([k \in {"itse", "pozo", "mant"} |-> 150]))}
        \cup FewFailureRaws
FewLeadRaws == {HttpResponse(204, InvalidBody)} \cup FewFailureRaws
FewChatRaws == {ChatReply(<<"o", "k", "<", "&">>), HttpResponse(204, InvalidBody)} \cup FewFailureRaws

---------------------------------------------------------------------------
(* Startup alone, with every metrics answer *)

InitStartup == InitPage(0..MaxBars)

NextStartup ==
    \/ \E raw \in HealthRaws : HealthSettle(raw)
    \/ \E raw \in MetricsRaws : MetricsSettle(raw)

SpecStartup == InitStartup /\ [][NextStartup]_vars

---------------------------------------------------------------------------
(* The page with one bar per key *)

Init == InitPage({Len(Keys)})

\* The contact form, with every form input and every answer to a lead
NextContact ==
    \/ \E raw \in FewHealthRaws : HealthSettle(raw)
    \/ \E raw \in FewMetricsRaws : MetricsSettle(raw)
    \/ \E field \in FormFields : \E value \in FieldInputs[field] : FillForm(field, value)
    \/ ContactSubmit(MaxContact)
    \/ \E h \in leadCalls, raw \in LeadRaws : LeadSettle(h, raw)

SpecContact == Init /\ [][NextContact]_vars

\* The chat widget, with every chat input and every answer to a message
NextChat ==
    \/ \E raw \in FewHealthRaws : HealthSettle(raw)
    \/ \E raw \in FewMetricsRaws : MetricsSettle(raw)
    \/ \E s \in ChatInputs : TypeChat(s)
    \/ ChatSubmit(MaxChat)
    \/ \E h \in chatCalls, raw \in ChatRaws : ChatSettle(h, raw)

SpecChat == Init /\ [][NextChat]_vars

\* The whole page
Next ==
    \/ \E raw \in HealthRaws : HealthSettle(raw)
    \/ \E raw \in FewMetricsRaws : MetricsSettle(raw)
    \/ \E field \in FormFields : \E value \in FewFieldInputs[field] : FillForm(field, value)
    \/ ContactSubmit(MaxPage)
    \/ \E h \in leadCalls, raw \in FewLeadRaws : LeadSettle(h, raw)
    \/ \E s \in FewChatInputs : TypeChat(s)
    \/ ChatSubmit(MaxPage)
    \/ \E h \in chatCalls, raw \in FewChatRaws : ChatSettle(h, raw)

Spec == Init /\ [][Next]_vars

---------------------------------------------------------------------------
(* The API client alone, with every answer of every endpoint *)

FetchRaws == HealthRaws \cup MetricsRaws \cup ChatRaws \cup LeadRaws

\* One call of fetchApi, from the request to the settled promise; the
\* specification follows one call
FetchCall(raw) ==
    /\ fetched = <<>>
    /\ fetched' = <<[raw |-> raw, result |-> FetchApi(raw)]>>
    /\ UNCHANGED <<notifications, requests, uncaught>>
    /\ UNCHANGED <<startupVars, contactVars, chatVars>>

NextFetch == \E raw \in FetchRaws : FetchCall(raw)

SpecFetch == Init /\ [][NextFetch]_vars

---------------------------------------------------------------------------
(* Properties of the startup *)

\* The answer to a request makes the ApiService call succeed
Succeeds(raw) ==
    /\ raw.net = "http"
    /\ raw.status \in 200..299
    /\ raw.status = 204 \/ raw.body.json # "invalid"

HealthFailed == healthRaw # NoResponse /\ ~Succeeds(healthRaw)
MetricsFailed == metricsRaw # NoResponse /\ ~Succeeds(metricsRaw)

Disconnected == statusElement.className = "status-disconnected"
Connected == statusElement.className = "status-connected"
HandlersBound == listeners.contact = 1 /\ listeners.chat = 1

\* C1, as stated: when the health check fails the status is Disconnected, an
\* error notification is shown, and startup still goes on to bind the
\* contact and chat submit handlers.
C1_HandlersBoundAfterHealthFailure ==
    (HealthFailed /\ initPc \in {"aborted", "initialized"}) =>
        /\ Disconnected
        /\ notifications.last.type = "error"
        /\ HandlersBound

\* C1, amended: when the health check fails the status is Disconnected,
\* exactly one error notification is shown, and startup stops there: the
\* metrics are never requested, no bar is rendered and neither submit
\* handler is ever bound.
C1_StartupStopsAfterHealthFailure ==
    HealthFailed =>
        /\ Disconnected
        /\ notifications = [count |-> 1, last |-> Notification(ConnectErrorMessage, "error")]
        /\ initPc = "aborted"
        /\ requests["METRICS"] = 0
        /\ \A i \in DOMAIN bars : ~bars[i].rendered
        /\ listeners = NoListeners
        /\ leadCalls = {} /\ chatCalls = {}

C1_Witness ==
    /\ HealthFailed
    /\ initPc = "aborted"
    /\ form.email # <<>>
    /\ chatInput # <<>>

Clamp(v, lo, hi) == IF v < lo THEN lo ELSE IF v > hi THEN hi ELSE v

\* C2: for every value v the backend returns for a chart key, the bar of
\* that key gets height clamp(v, 5, 100) and its label shows clamp(v, 5, 100).
C2_HeightAndLabelClamped ==
    (initPc = "initialized" /\ Succeeds(metricsRaw) /\ metricsRaw.status # 204
        /\ metricsRaw.body.json = "object") =>
        \A i \in DOMAIN bars :
            (i <= Len(Keys) /\ Keys[i] \in DOMAIN metricsRaw.body.fields) =>
                /\ bars[i].height = Clamp(metricsRaw.body.fields[Keys[i]], 5, 100)
                /\ bars[i].label = Clamp(metricsRaw.body.fields[Keys[i]], 5, 100)

\* C3: in every reachable state every bar the controller has rendered has a
\* height in [5, 100], and once startup has completed every bar is rendered.
C3_HeightsInRange ==
    \A i \in DOMAIN bars :
        /\ initPc = "initialized" => bars[i].rendered
        /\ bars[i].rendered => bars[i].height \in 5..100

C3_Witness ==
    /\ initPc = "initialized"
    /\ Succeeds(metricsRaw) /\ metricsRaw.status # 204
    /\ metricsRaw.body.json = "object"
    /\ DOMAIN metricsRaw.body.fields = {"itse", "mant"}
    /\ metricsRaw.body.fields["itse"] = -10
    /\ metricsRaw.body.fields["mant"] = 150
    /\ Len(bars) = 4
    /\ bars[1].rendered

\* 80, 65, 90, 50 in the order of the chart keys
C4_Fallback == <<80, 65, 90, 50>>

\* C4: when the metrics call fails after a successful health check, the bars
\* show exactly the fallback 80, 65, 90, 50 (height and label), no error
\* leaves loadMetrics or initializeApp (initializeApp runs to its end, not
\* to its catch), showNotification is never called, and startup completes
\* with both submit handlers bound.
C4_MetricsFailureFallback ==
    MetricsFailed =>
        /\ \A i \in DOMAIN bars :
              i <= 4 => /\ bars[i].rendered
                        /\ bars[i].height = C4_Fallback[i]
                        /\ bars[i].label = C4_Fallback[i]
        /\ initPc = "initialized"
        /\ uncaught = <<>>
        /\ notifications = NoNotifications
        /\ HandlersBound

C4_Witness ==
    /\ MetricsFailed
    /\ Connected
    /\ Len(bars) = 4
    /\ initPc = "initialized"

---------------------------------------------------------------------------
(* Properties of the contact form *)

\* A step that handles one more submit event of the contact form
ContactSubmitStep == contactEvents' = contactEvents + 1

\* s is empty once its leading and trailing white space is dropped
Blank(s) == \A i \in 1..Len(s) : s[i] = " "

\* s without its leading and trailing white space, for a text that is not blank
Core(s) ==
    LET inside == {i \in 1..Len(s) : s[i] # " "}
    IN  SubSeq(s, CHOOSE i \in inside : \A j \in inside : i <= j,
                  CHOOSE i \in inside : \A j \in inside : j <= i)

\* local@domain.tld with no white space and no second @:  ^[^\s@]+@[^\s@]+\.[^\s@]+$
MatchesEmailPattern(e) ==
    /\ Cardinality({i \in 1..Len(e) : e[i] = "@"}) = 1
    /\ \A i \in 1..Len(e) : e[i] # " "
    /\ LET at == CHOOSE i \in 1..Len(e) : e[i] = "@"
       IN  /\ at > 1
           /\ \E dot \in (at + 2)..(Len(e) - 1) : e[dot] = "."

MissingRequired(f) == Blank(f.name) \/ Blank(f.email) \/ Blank(f.phone)
InvalidSubmission(f) == MissingRequired(f) \/ ~MatchesEmailPattern(Core(f.email))

\* C5: a submission whose name, email or phone is empty after trimming, or
\* whose trimmed email does not match ^[^\s@]+@[^\s@]+\.[^\s@]+$, issues no
\* lead request and shows one error notification carrying the validation
\* message.
C5_InvalidSubmissionNeverSent ==
    [][(ContactSubmitStep /\ InvalidSubmission(form)) =>
          /\ requests' = requests
          /\ leadCalls' = leadCalls
          /\ notifications'.count = notifications.count + 1
          /\ notifications'.last.type = "error"
          /\ notifications'.last.message =
                IF MissingRequired(form) THEN MissingFieldsMessage ELSE InvalidEmailMessage]_vars

C5_Witness ==
    /\ contactEvents = 2
    /\ requests["LEADS"] = 0
    /\ notifications = [count |-> 2, last |-> Notification(InvalidEmailMessage, "error")]
    /\ form.email = <<"a", "@", "b", ".">>

\* C6: while a contact submission's handler runs, its lead request in flight
\* included, the submit button is disabled and shows the busy label.
C6_ButtonBusyWhileHandlerRuns ==
    leadCalls # {} =>
        /\ submitButton.disabled
        /\ submitButton.textContent = BusyLabel

\* C7: a submission whose lead request succeeds resets the form and shows a
\* success notification; a submission that fails, in the validation or in
\* the request, leaves the fields as they were, shows an error notification
\* with the failure's message, or the generic message when it has none, and
\* leaves the submit button enabled.
C7_ResetOnSuccessOnly ==
    [][/\ \A h \in leadCalls \ leadCalls', raw \in LeadRaws :
            LeadSettle(h, raw) =>
                IF Succeeds(raw)
                THEN /\ form' = EmptyForm
                     /\ notifications'.last = Notification(ContactSuccessMessage, "success")
                     /\ notifications'.count = notifications.count + 1
                ELSE /\ form' = form
                     /\ notifications'.last.type = "error"
                     /\ notifications'.last.message =
                           IF FetchApi(raw).message = ""
                           THEN GenericContactError
                           ELSE FetchApi(raw).message
                     /\ notifications'.count = notifications.count + 1
                     /\ ~submitButton'.disabled
       /\ (ContactSubmitStep /\ InvalidSubmission(form)) =>
             /\ form' = form
             /\ notifications'.last.type = "error"
             /\ notifications'.last.message \in {MissingFieldsMessage, InvalidEmailMessage}
             /\ notifications'.count = notifications.count + 1
             /\ ~submitButton'.disabled]_vars

C7_Witness ==
    /\ contactEvents = 2
    /\ leadCalls = {}
    /\ notifications = [count |-> 2, last |-> Notification(GenericContactError, "error")]
    /\ form.name = <<" ", "a", " ">>
    /\ form.message = <<" ", "m">>
    /\ ~submitButton.disabled

---------------------------------------------------------------------------
(* Properties of the chat *)

\* A step that handles one more submit event of the chat form
ChatSubmitStep == chatEvents' = chatEvents + 1

\* The positions of the entries that submission sub appended as sender
EntriesOf(container, sub, sender) ==
    {i \in 1..Len(container) : container[i].sub = sub /\ container[i].sender = sender}

\* The answer carries a reply text
HasReply(raw) ==
    /\ Succeeds(raw)
    /\ raw.status # 204
    /\ raw.body.json = "object"
    /\ "reply" \in DOMAIN raw.body.fields

\* The answer counts as a failure of the chat: the request fails, or it
\* succeeds with no body
ChatFails(raw) == ~Succeeds(raw) \/ raw.status = 204 \/ raw.body.json = "null"

\* C8: a chat submission with non-empty trimmed text puts the user's entry in
\* the transcript before its request settles and no bot entry yet; when the
\* request settles the transcript gains exactly one bot entry for that
\* submission, the server's reply on success and the fixed fallback message
\* on any failure, a response with no body included.
C8_OneBotEntryPerSubmission ==
    /\ [](\A h \in chatCalls :
            /\ Cardinality(EntriesOf(chatContainer, h.id, "user")) = 1
            /\ \A i \in EntriesOf(chatContainer, h.id, "user") :
                  chatContainer[i].html = EscapeHtml(h.message)
            /\ EntriesOf(chatContainer, h.id, "bot") = {})
    /\ [](\A sub \in 1..chatEvents :
            (EntriesOf(chatContainer, sub, "user") # {} /\ \A h \in chatCalls : h.id # sub) =>
                Cardinality(EntriesOf(chatContainer, sub, "bot")) = 1)
    /\ [][/\ (ChatSubmitStep /\ ~Blank(chatInput)) =>
                /\ Cardinality(chatCalls') = Cardinality(chatCalls) + 1
                /\ \E i \in 1..Len(chatContainer') :
                      chatContainer'[i] =
                          [sender |-> "user", html |-> EscapeHtml(Core(chatInput)),
                           sub |-> chatEvents']
          /\ \A h \in chatCalls \ chatCalls', raw \in ChatRaws :
                ChatSettle(h, raw) =>
                    /\ Cardinality(EntriesOf(chatContainer', h.id, "bot")) = 1
                    /\ chatContainer'[Len(chatContainer')].sub = h.id
                    /\ chatContainer'[Len(chatContainer')].sender = "bot"
                    /\ HasReply(raw) =>
                          chatContainer'[Len(chatContainer')].html =
                              EscapeHtml(raw.body.fields["reply"])
                    /\ ChatFails(raw) =>
                          chatContainer'[Len(chatContainer')].html =
                              EscapeHtml(FallbackReply)]_vars

C8_Witness ==
    /\ chatCalls = {}
    /\ Len(chatContainer) = 4
    /\ chatContainer[1] = [sender |-> "user", html |-> <<"H", "o", "l", "a">>, sub |-> 1]
    /\ chatContainer[2].sender = "user"
    /\ chatContainer[3] = [sender |-> "bot", html |-> EscapeHtml(FallbackReply), sub |-> 2]
    /\ chatContainer[4].sender = "bot"
    /\ chatContainer[4].sub = 1
    /\ chatContainer[4].html # EscapeHtml(FallbackReply)

\* C9: a chat submission whose input is empty or only white space changes
\* nothing: no entry and no typing indicator are added to the transcript, no
\* request is issued, and the input keeps its content.
C9_BlankChatSubmissionIsNoOp ==
    [][(ChatSubmitStep /\ Blank(chatInput)) =>
          /\ chatContainer' = chatContainer
          /\ chatInput' = chatInput
          /\ chatCalls' = chatCalls
          /\ requests' = requests]_vars

C9_Witness ==
    /\ chatEvents = 2
    /\ chatInput = <<" ", " ">>
    /\ Len(chatContainer) = 2
    /\ requests["CHAT"] = 1

---------------------------------------------------------------------------
(* Property of the connection status *)

\* C10: the connection status is Unknown until the health check settles,
\* then Connected if the check succeeded and Disconnected if it failed; it
\* changes in that step only, whatever later metrics, lead or chat requests
\* do.
C10_StatusSetOnceAtStartup ==
    /\ [](IF initPc = "awaitHealth" THEN statusElement = StatusUnknown
          ELSE IF Succeeds(healthRaw) THEN Connected
          ELSE Disconnected)
    /\ [][statusElement' # statusElement =>
             (initPc = "awaitHealth" /\ initPc' # "awaitHealth")]_vars

C10_Witness ==
    /\ Connected
    /\ MetricsFailed
    /\ requests["LEADS"] = 1 /\ leadCalls = {}
    /\ notifications.last.type = "error"
    /\ requests["CHAT"] = 1 /\ chatCalls = {}

---------------------------------------------------------------------------
(* Properties of the API client *)

\* The message the server's JSON error body carries, "" when it carries none
ServerMessageOf(body) ==
    IF body.json = "object" /\ "message" \in DOMAIN body.fields
    THEN body.fields["message"]
    ELSE ""

\* C11: every call of fetchApi ends in one of four ways.  A transport failure
\* fails with the transport's error; a non-success status fails with the
\* message of the server's JSON body, or with the default message when the
\* body has no message or cannot be decoded; a 204 returns null; any other
\* success whose body can be decoded returns that body.
C11_FetchOutcomes ==
    \A i \in DOMAIN fetched :
        LET raw == fetched[i].raw
            result == fetched[i].result
        IN  IF raw.net = "error"
            THEN ~result.ok /\ result.message = raw.msg
            ELSE IF raw.status \notin 200..299
            THEN /\ ~result.ok
                 /\ result.message =
                        IF ServerMessageOf(raw.body) # ""
                        THEN ServerMessageOf(raw.body)
                        ELSE DefaultErrorMessage
            ELSE IF raw.status = 204
            THEN result.ok /\ result.value = NullBody
            ELSE raw.body.json # "invalid" =>
                    result.ok /\ result.value = raw.body

---------------------------------------------------------------------------
(* Properties of the requests *)

\* The bot entries of the transcript
BotEntries == {i \in 1..Len(chatContainer) : chatContainer[i].sender = "bot"}

\* C12, the counts: the health endpoint is requested exactly once, the
\* metrics endpoint once when the health check succeeded and never otherwise,
\* every lead request issued is in flight or was settled by one
\* notification, and every chat request issued is in flight or was answered
\* by one bot entry.
C12_RequestCounts ==
    /\ requests["HEALTH"] = 1
    /\ requests["METRICS"] = IF initPc = "awaitHealth" \/ HealthFailed THEN 0 ELSE 1
    /\ requests["LEADS"] <= contactEvents
    /\ requests["LEADS"] - Cardinality(leadCalls) <= notifications.count
    /\ requests["CHAT"] <= chatEvents
    /\ requests["CHAT"] = Cardinality(chatCalls) + Cardinality(BotEntries)

\* C12, the steps: a valid contact submission issues exactly one lead request
\* and a non-empty chat submission exactly one chat request, no other step
\* of the page issues a lead or chat request, and a request that fails is not
\* issued again: its failure is what its caller handles in that same step
\* (the error notification of the form, the fallback entry of the chat).
C12_OneRequestPerSubmission ==
    [][/\ requests'["HEALTH"] = requests["HEALTH"]
       /\ requests'["LEADS"] =
            IF ContactSubmitStep /\ ~InvalidSubmission(form)
            THEN requests["LEADS"] + 1 ELSE requests["LEADS"]
       /\ requests'["CHAT"] =
            IF ChatSubmitStep /\ ~Blank(chatInput)
            THEN requests["CHAT"] + 1 ELSE requests["CHAT"]
       /\ \A h \in leadCalls, raw \in FewLeadRaws :
            (LeadSettle(h, raw) /\ ~Succeeds(raw)) =>
                /\ requests' = requests
                /\ h \notin leadCalls'
                /\ notifications'.count = notifications.count + 1
                /\ notifications'.last.type = "error"
       /\ \A h \in chatCalls, raw \in FewChatRaws :
            (ChatSettle(h, raw) /\ ~Succeeds(raw)) =>
                /\ requests' = requests
                /\ h \notin chatCalls'
                /\ Len(chatContainer') > 0
                /\ chatContainer'[Len(chatContainer')].sender = "bot"
                /\ chatContainer'[Len(chatContainer')].sub = h.id]_vars

\* C12: there is no retry
C12_NoRetry == []C12_RequestCounts /\ C12_OneRequestPerSubmission

\* Every endpoint was requested, the lead and the chat request failed, and
\* nothing is in flight
C12_Witness ==
    /\ requests = [e \in Endpoints |-> 1]
    /\ leadCalls = {} /\ chatCalls = {}
    /\ MetricsFailed
    /\ notifications.last.type = "error"
    /\ BotEntries # {}
    /\ \A i \in BotEntries : chatContainer[i].html = EscapedFallbackReply

---------------------------------------------------------------------------
(* Property of the handlers' errors *)

\* C13: no error leaves initializeApp, handleContactSubmit or
\* handleChatSubmit, whether the validation or a request (health, metrics,
\* lead, chat) failed: nothing is uncaught, and initializeApp has ended once
\* the health check has failed.
C13_NoUncaughtRejection ==
    /\ uncaught = <<>>
    /\ HealthFailed => initPc = "aborted"
    /\ MetricsFailed => initPc = "initialized"

\* The metrics, the lead and the chat request have all failed and their
\* handlers have ended
C13_Witness ==
    /\ MetricsFailed
    /\ contactEvents = 1 /\ requests["LEADS"] = 1 /\ leadCalls = {}
    /\ notifications = [count |-> 1, last |-> Notification(TransportMessage, "error")]
    /\ chatEvents = 1 /\ requests["CHAT"] = 1 /\ chatCalls = {}
    /\ chatContainer[Len(chatContainer)].html = EscapedFallbackReply
    /\ uncaught = <<>>

---------------------------------------------------------------------------
(* Properties of the typing indicator *)

\* The positions of the typing indicators in a transcript
TypingIndicators(container) ==
    {i \in 1..Len(container) : container[i].sender = "typing-indicator"}

\* The message entries of a transcript, in order
RECURSIVE Messages(_)
Messages(container) ==
    IF container = <<>> THEN <<>>
    ELSE IF Head(container).sender = "typing-indicator" THEN Messages(Tail(container))
    ELSE <<Head(container)>> \o Messages(Tail(container))

\* C14: a non-empty chat submission appends the user's entry and then the
\* typing indicator, in the step that sends the request.  When the request
\* settles, on success and on failure alike, a typing indicator is removed
\* (if one is left) and the bot entry is appended last, the other entries
\* staying in place; a submission that overlaps no other leaves no indicator.
\* A failure appends the fixed fallback message and shows no notification.
C14_TypingIndicatorAroundRequest ==
    [][/\ (ChatSubmitStep /\ ~Blank(chatInput)) =>
            /\ Len(chatContainer') = Len(chatContainer) + 2
            /\ SubSeq(chatContainer', 1, Len(chatContainer)) = chatContainer
            /\ chatContainer'[Len(chatContainer) + 1].sender = "user"
            /\ chatContainer'[Len(chatContainer) + 2].sender = "typing-indicator"
            /\ requests'["CHAT"] = requests["CHAT"] + 1
       /\ \A h \in chatCalls, raw \in ChatRaws :
            ChatSettle(h, raw) =>
                LET last == chatContainer'[Len(chatContainer')]
                    before == Cardinality(TypingIndicators(chatContainer))
                    after == Cardinality(TypingIndicators(chatContainer'))
                IN  /\ before > 0 => after < before
                    /\ (chatCalls = {h} /\ before = 1) => after = 0
                    /\ last.sender = "bot" /\ last.sub = h.id
                    /\ Messages(chatContainer') = Append(Messages(chatContainer), last)
                    /\ notifications' = notifications
                    /\ ~Succeeds(raw) => last.html = FallbackReply]_vars

\* A chat request has failed: the transcript is the user's entry followed by
\* the fallback entry, with no typing indicator and no notification
C14_Witness ==
    /\ chatEvents = 1 /\ requests["CHAT"] = 1 /\ chatCalls = {}
    /\ Len(chatContainer) = 2
    /\ chatContainer[1].sender = "user"
    /\ chatContainer[2].sender = "bot" /\ chatContainer[2].html = FallbackReply
    /\ notifications.count = 0

---------------------------------------------------------------------------
(* Property of overlapping chat submissions *)

\* C15: a non-empty chat submission puts one more request in flight whatever
\* is in flight already, the earlier requests staying as they are; a request
\* that settles leaves the others in flight and its bot entry goes to the end
\* of the transcript, so the bot entries stand in the order of settling.
C15_RepliesInSettleOrder ==
    [][/\ (ChatSubmitStep /\ ~Blank(chatInput)) =>
            /\ chatCalls \subseteq chatCalls'
            /\ Cardinality(chatCalls') = Cardinality(chatCalls) + 1
            /\ \E h \in chatCalls' \ chatCalls :
                  h.id = chatEvents + 1 /\ h.message = Core(chatInput)
       /\ \A h \in chatCalls, raw \in ChatRaws :
            ChatSettle(h, raw) =>
                /\ chatCalls' = chatCalls \ {h}
                /\ chatContainer'[Len(chatContainer')].sender = "bot"
                /\ chatContainer'[Len(chatContainer')].sub = h.id
                /\ \A i \in 1..(Len(chatContainer') - 1) :
                      chatContainer'[i].sender = "bot" =>
                          chatContainer'[i].sub # h.id]_vars

\* Two submissions overlapped and the server's reply to the second stands
\* before the server's reply to the first
C15_Witness ==
    /\ chatCalls = {}
    /\ \E i, j \in 1..Len(chatContainer) :
          /\ i < j
          /\ chatContainer[i].sender = "bot" /\ chatContainer[i].sub = 2
          /\ chatContainer[j].sender = "bot" /\ chatContainer[j].sub = 1
          /\ chatContainer[i].html # FallbackReply
          /\ chatContainer[j].html # FallbackReply
    /\ \E i, j \in 1..Len(chatContainer) :
          /\ i < j
          /\ chatContainer[i].sender = "user" /\ chatContainer[i].sub = 2
          /\ chatContainer[j].sender = "bot" /\ chatContainer[j].sub = 2

---------------------------------------------------------------------------
(* Property of the transcript's texts *)

\* The HTML would open a tag
LiveMarkup(html) == \E i \in 1..Len(html) : html[i] = "<"

StartsWith(html, prefix) ==
    /\ Len(html) >= Len(prefix)
    /\ SubSeq(html, 1, Len(prefix)) = prefix

RECURSIVE DecodeReferences(_)
\* The HTML with & < > in the place of the character references &amp; &lt;
\* &gt;
DecodeReferences(html) ==
    IF html = <<>> THEN <<>>
    ELSE IF StartsWith(html, <<"&", "a", "m", "p", ";">>)
    THEN <<"&">> \o DecodeReferences(SubSeq(html, 6, Len(html)))
    ELSE IF StartsWith(html, <<"&", "l", "t", ";">>)
    THEN <<"<">> \o DecodeReferences(SubSeq(html, 5, Len(html)))
    ELSE IF StartsWith(html, <<"&", "g", "t", ";">>)
    THEN <<">">> \o DecodeReferences(SubSeq(html, 5, Len(html)))
    ELSE <<Head(html)>> \o DecodeReferences(Tail(html))

\* The text a browser shows for HTML that has no tag; HTML with no & shows
\* as it is
RenderedText(html) ==
    IF \A i \in 1..Len(html) : html[i] # "&" THEN html ELSE DecodeReferences(html)

\* The fallback message has none of & < >, so as HTML it shows as it stands
PlainFallback ==
    \A i \in 1..Len(FallbackReply) : FallbackReply[i] \notin {"&", "<", ">"}

\* The HTML shows exactly text, as text
ShowsLiterally(html, text) ==
    IF html = FallbackReply
    THEN PlainFallback /\ text = FallbackReply
    ELSE ~LiveMarkup(html) /\ RenderedText(html) = text

\* C16: after every step no entry of the transcript holds markup (each is the
\* fallback message as it stands, or has no "<"), and every text that enters the
\* transcript is shown literally: the user's trimmed text, the server's reply
\* (nothing when the answer has no reply), the fixed fallback message.
C16_TranscriptTextEscaped ==
    [][/\ \A i \in 1..Len(chatContainer') :
            \/ chatContainer'[i].html = FallbackReply
            \/ ~LiveMarkup(chatContainer'[i].html)
       /\ (ChatSubmitStep /\ ~Blank(chatInput)) =>
            ShowsLiterally(chatContainer'[Len(chatContainer) + 1].html, Core(chatInput))
       /\ \A h \in chatCalls, raw \in ChatRaws :
            ChatSettle(h, raw) =>
                ShowsLiterally(chatContainer'[Len(chatContainer')].html,
                               IF HasReply(raw) THEN raw.body.fields["reply"]
                               ELSE IF ChatFails(raw) THEN FallbackReply
                               ELSE <<>>)]_vars

\* The user's "<b>&" and the server's "ok<&" stand escaped in the transcript
C16_Witness ==
    /\ Len(chatContainer) = 2
    /\ chatContainer[1].sender = "user"
    /\ chatContainer[1].html =
          <<"&", "l", "t", ";", "b", "&", "g", "t", ";", "&", "a", "m", "p", ";">>
    /\ chatContainer[2].sender = "bot"
    /\ chatContainer[2].html = <<"o", "k", "&", "l", "t", ";", "&", "a", "m", "p", ";">>

---------------------------------------------------------------------------
(* Property of the startup's order *)

\* C17: the metrics are requested only once the health check has settled, the
\* submit handlers are bound only once the metrics load has settled, with
\* the server's metrics or the fallback, and each of the two forms gets at
\* most one handler.
C17_StartupSequential ==
    /\ requests["METRICS"] > 0 => healthRaw # NoResponse
    /\ metricsRaw # NoResponse => requests["METRICS"] > 0
    /\ (listeners.contact > 0 \/ listeners.chat > 0) => metricsRaw # NoResponse
    /\ metricsRaw # NoResponse => listeners.contact = 1 /\ listeners.chat = 1
    /\ listeners.contact <= 1 /\ listeners.chat <= 1

\* The metrics load has failed, the fallback is rendered and both handlers
\* are bound
C17_Witness ==
    /\ healthRaw # NoResponse /\ Succeeds(healthRaw)
    /\ MetricsFailed
    /\ requests["METRICS"] = 1
    /\ Len(bars) > 0 /\ bars[1].rendered /\ bars[1].height = 80
    /\ listeners = [contact |-> 1, chat |-> 1]

---------------------------------------------------------------------------
(* Property of the lead *)

\* C18: a valid contact submission sends one lead, which carries the name,
\* the email and the phone without their leading and trailing white space,
\* the source "formulario-web", and as message the trimmed message of the
\* form, or "Sin mensaje adicional" when that is empty.
C18_LeadPayload ==
    [][(ContactSubmitStep /\ ~InvalidSubmission(form)) =>
          /\ leadCalls \subseteq leadCalls'
          /\ Cardinality(leadCalls' \ leadCalls) = 1
          /\ \A h \in leadCalls' \ leadCalls :
                h.lead = [name |-> Core(form.name),
                          email |-> Core(form.email),
                          phone |-> Core(form.phone),
                          message |-> IF Blank(form.message)
                                      THEN PlaceholderMessage
                                      ELSE Core(form.message),
                          source |-> "formulario-web"]]_vars

\* Two leads are in flight, one sent with a blank message and one with the
\* message " m"
C18_Witness ==
    /\ \E h \in leadCalls :
          /\ h.lead.message = PlaceholderMessage
          /\ h.lead.name = <<"a">> /\ h.lead.phone = <<"9">>
          /\ h.lead.email = <<"a", "@", "b", ".", "c">>
    /\ \E h \in leadCalls : h.lead.message = <<"m">>

---------------------------------------------------------------------------
(* Property of overlapping contact submissions *)

\* C19: once every lead request has settled, the submit button is enabled and
\* shows its idle label, also when submissions overlapped and whatever the
\* order in which their requests settled.
C19_ButtonIdleOnceAllSettled ==
    leadCalls = {} => submitButton = [disabled |-> FALSE, textContent |-> IdleLabel]

---------------------------------------------------------------------------
(* Property of the typing indicators' number *)

\* C20: in every state the transcript holds as many typing indicators as
\* there are chat requests in flight; none is left once all have settled.
C20_IndicatorPerRequestInFlight ==
    Cardinality(TypingIndicators(chatContainer)) = Cardinality(chatCalls)

---------------------------------------------------------------------------
(* Property of the transcript's message entries *)

\* C21: the message entries of the transcript are append-only.  After every
\* step the message entries are those before the step, unchanged and in the
\* same order, followed by at most one new entry; and every bot entry stands
\* after the user entry of its own submission.
C21_MessagesAppendOnly ==
    [][LET old == Messages(chatContainer)
           new == Messages(chatContainer')
       IN  /\ Len(new) \in {Len(old), Len(old) + 1}
           /\ SubSeq(new, 1, Len(old)) = old
           /\ \A i \in 1..Len(chatContainer') :
                chatContainer'[i].sender = "bot" =>
                    \E j \in 1..(i - 1) :
                        /\ chatContainer'[j].sender = "user"
                        /\ chatContainer'[j].sub = chatContainer'[i].sub]_vars

\* Two submissions overlapped and both were answered, the first one first:
\* the transcript holds the two user entries and then the two bot entries
C21_Witness ==
    /\ chatEvents = 2 /\ chatCalls = {}
    /\ Len(chatContainer) = 4
    /\ chatContainer[1].sender = "user" /\ chatContainer[1].sub = 1
    /\ chatContainer[2].sender = "user" /\ chatContainer[2].sub = 2
    /\ chatContainer[3].sender = "bot" /\ chatContainer[3].sub = 1
    /\ chatContainer[4].sender = "bot" /\ chatContainer[4].sub = 2

---------------------------------------------------------------------------
(* Property of a metrics answer with no content *)

\* The metrics request was answered 204 No Content
MetricsNoContent == metricsRaw # NoResponse /\ metricsRaw.net = "http" /\ metricsRaw.status = 204

\* C22: when the metrics request is answered 204 and the chart has at least
\* one bar, the bars show the fallback 80, 65, 90, 50 (height and label) as
\* after a failure, and no error leaves loadMetrics: initializeApp goes on
\* to its end and binds the handlers, nothing is notified, nothing is
\* uncaught.
C22_NoContentMetricsFallback ==
    (MetricsNoContent /\ Len(bars) > 0) =>
        /\ \A i \in 1..Len(bars) :
              i <= 4 =>
                  LET fallback == CASE i = 1 -> 80 [] i = 2 -> 65 [] i = 3 -> 90 [] OTHER -> 50
                  IN  /\ bars[i].rendered
                      /\ bars[i].height = fallback
                      /\ bars[i].label = fallback
        /\ initPc = "initialized"
        /\ listeners.contact = 1 /\ listeners.chat = 1
        /\ notifications.count = 0
        /\ uncaught = <<>>

\* A chart of four bars after a 204 answer
C22_Witness ==
    /\ MetricsNoContent
    /\ Len(bars) = 4
    /\ bars[1].height = 80 /\ bars[2].height = 65
    /\ bars[3].height = 90 /\ bars[4].height = 50
    /\ initPc = "initialized"

=============================================================================
